---------------------------- MODULE Spec2Model ----------------------------
(***************************************************************************)
(* Model of helmholtzCoilsDesigner (src/src/helmCoils_simulator.py and     *)
(* src/sequential_test.py): coil construction, coil positions, the four    *)
(* geometry generators, the observation grid and the Biot-Savart field     *)
(* evaluation.                                                             *)
(*                                                                         *)
(* Real numbers are modelled in fixed point: lengths are integers in model *)
(* units (inputs are chosen even, so that L / 2 and h / 2 are exact),      *)
(* np.nan is the value NaN, and a numpy array is a nested sequence whose   *)
(* first index is 1 where numpy's is 0.                                    *)
(***************************************************************************)
EXTENDS Integers, Sequences, FiniteSets, TLC

VARIABLES args, coil, spires, grid, fld, sim, opt, frames, ga

vars == <<args, coil, spires, grid, fld, sim, opt, frames, ga>>

(***************************************************************************)
(* Bounds of the model.                                                    *)
(***************************************************************************)
MaxCoils == 3
MaxNumSeg == 3
MaxSides == 5
MaxStarPoints == 3

(***************************************************************************)
(* numpy helpers.                                                          *)
(***************************************************************************)
NaN == -1000000

IsNaN(x) == x = NaN

Add(x, y) == IF IsNaN(x) \/ IsNaN(y) THEN NaN ELSE x + y

Sub(x, y) == IF IsNaN(x) \/ IsNaN(y) THEN NaN ELSE x - y

Neg(x) == IF IsNaN(x) THEN NaN ELSE 0 - x

Mul(x, y) == IF IsNaN(x) \/ IsNaN(y) THEN NaN ELSE x * y

Half(x) == IF IsNaN(x) THEN NaN ELSE x \div 2

Min(x, y) == IF x <= y THEN x ELSE y

\* np.ones((n,)) * v
Ones(n, v) == [i \in 1..n |-> v]

\* np.sum(d[lo:hi]) for a 0-based array d (a function on 0..len-1); an empty
\* slice sums to 0 and a NaN entry makes the sum NaN.
RECURSIVE NpSumSlice(_, _, _)
NpSumSlice(d, lo, hi) ==
    IF lo >= hi THEN 0 ELSE Add(d[lo], NpSumSlice(d, lo + 1, hi))

(***************************************************************************)
(* Rotation matrices: a matrix is a record of its numpy shape and rows.    *)
(***************************************************************************)
Mat(r1, r2, r3) == [shape |-> <<3, 3>>, m |-> <<r1, r2, r3>>]

Identity3 == Mat(<<1, 0, 0>>, <<0, 1, 0>>, <<0, 0, 1>>)

RotZ90 == Mat(<<0, -1, 0>>, <<1, 0, 0>>, <<0, 0, 1>>)

MirrorZ == Mat(<<1, 0, 0>>, <<0, 1, 0>>, <<0, 0, -1>>)

Scale2 == Mat(<<2, 0, 0>>, <<0, 2, 0>>, <<0, 0, 2>>)

Mat2x3 == [shape |-> <<2, 3>>, m |-> <<<<1, 0, 0>>, <<0, 1, 0>>>>]

rotz_180 == Mat(<<-1, 0, 0>>, <<0, -1, 0>>, <<0, 0, 1>>)

Dot3(u, v) == Add(Add(Mul(u[1], v[1]), Mul(u[2], v[2])), Mul(u[3], v[3]))

\* A @ p for a 3x3 matrix record A and a point p
MatVec(A, p) == <<Dot3(A.m[1], p), Dot3(A.m[2], p), Dot3(A.m[3], p)>>

\* np.dot(A, B) for 3x3 matrices
MatMul(A, B) ==
    [shape |-> <<3, 3>>,
     m |-> [i \in 1..3 |-> [j \in 1..3 |->
               A.m[i][1] * B.m[1][j] + A.m[i][2] * B.m[2][j] + A.m[i][3] * B.m[3][j]]]]

Transpose3(A) == [shape |-> <<3, 3>>, m |-> [i \in 1..3 |-> [j \in 1..3 |-> A.m[j][i]]]]

Det3(A) ==
    LET m == A.m IN
      m[1][1] * (m[2][2] * m[3][3] - m[2][3] * m[3][2])
    - m[1][2] * (m[2][1] * m[3][3] - m[2][3] * m[3][1])
    + m[1][3] * (m[2][1] * m[3][2] - m[2][2] * m[3][1])

\* orthonormal with determinant +1
IsRotation(A) ==
    /\ A.shape = <<3, 3>>
    /\ MatMul(A, Transpose3(A)).m = Identity3.m
    /\ Det3(A) = 1

(***************************************************************************)
(* CoilParameters.__init__ and get_spires_position.                        *)
(***************************************************************************)
NoCoil ==
    [status |-> "none", coils_number |-> 0, L |-> <<>>, h |-> <<>>, N |-> <<>>,
     I |-> 0, A |-> Identity3, a |-> <<>>, pos |-> <<>>]

\* e = (coils_number % 2 == 0) as Python uses it in arithmetic: True is 1
EvenFlag(coils_number) == IF coils_number % 2 = 0 THEN 1 ELSE 0

\* the first loop: d is a 0-based array of coils_number entries, NaN at first
RECURSIVE DisplacementLoop(_, _, _, _)
DisplacementLoop(coils_number, h, d, j) ==
    IF j >= coils_number - 1 THEN d
    ELSE LET o == coils_number \div 2
             mid == o - EvenFlag(coils_number)
             even == coils_number % 2 = 0
             d2 == IF j < mid
                     THEN [d EXCEPT ![j] = Neg(h[j + 1])]
                   ELSE IF j = mid
                     THEN [d EXCEPT ![j] = IF even THEN Half(Neg(h[j + 1])) ELSE 0,
                                    ![j + 1] = IF even THEN Half(h[j + 1]) ELSE h[j + 1]]
                   ELSE [d EXCEPT ![j + 1] = h[j + 1]]
         IN  DisplacementLoop(coils_number, h, d2, j + 1)

\* the positions with the middle displacement left out of the sums of the
\* coils before the middle
get_spires_position_open_slice(coils_number, h) ==
    LET o == coils_number \div 2
        mid == o - EvenFlag(coils_number)
        d == DisplacementLoop(coils_number, h, [j \in 0..(coils_number - 1) |-> NaN], 0)
    IN  [i \in 1..coils_number |->
            LET j == i - 1 IN
            IF j <= mid THEN NpSumSlice(d, j, mid)
                        ELSE NpSumSlice(d, mid + 1, j + 1)]

get_spires_position(coils_number, h) ==
    LET o == coils_number \div 2
        mid == o - EvenFlag(coils_number)
        d == DisplacementLoop(coils_number, h, [j \in 0..(coils_number - 1) |-> NaN], 0)
    IN  [i \in 1..coils_number |->
            LET j == i - 1 IN
            IF j <= mid THEN NpSumSlice(d, j, mid + 1)
                        ELSE NpSumSlice(d, mid + 1, j + 1)]

\* the height checked against coils_number, as length and turns are
CoilParametersHeightPerCoil(coils_number, length, height, turns, current, rot_matrix) ==
    LET err(msg) == [NoCoil EXCEPT !.status = msg]
        L == IF Len(length) = 1 THEN Ones(coils_number, length[1]) ELSE length
        h == IF Len(height) = 1 THEN Ones(coils_number - 1, height[1]) ELSE height
        N == IF Len(turns) = 1 THEN Ones(coils_number, turns[1]) ELSE turns
    IN  IF Len(length) \notin {1, coils_number} THEN err("ValueError: length")
        ELSE IF Len(height) \notin {1, coils_number} THEN err("ValueError: height")
        ELSE IF Len(turns) \notin {1, coils_number} THEN err("ValueError: turns")
        ELSE IF rot_matrix.shape # <<3, 3>> THEN err("ValueError: rot_matrix")
        ELSE [status |-> "ok", coils_number |-> coils_number, L |-> L, h |-> h, N |-> N,
              I |-> current, A |-> rot_matrix,
              a |-> [i \in 1..coils_number |-> Half(L[i])],
              pos |-> get_spires_position(coils_number, h)]

\* CoilParameters(coils_number, length, height, turns, current, rot_matrix);
\* scalars arrive as one-element sequences (np.atleast_1d).
CoilParameters(coils_number, length, height, turns, current, rot_matrix) ==
    LET err(msg) == [NoCoil EXCEPT !.status = msg]
        L == IF Len(length) = 1 THEN Ones(coils_number, length[1]) ELSE length
        h == IF Len(height) = 1 THEN Ones(coils_number - 1, height[1]) ELSE height
        N == IF Len(turns) = 1 THEN Ones(coils_number, turns[1]) ELSE turns
    IN  IF Len(length) \notin {1, coils_number} THEN err("ValueError: length")
        ELSE IF Len(height) \notin {1, coils_number - 1} THEN err("ValueError: height")
        ELSE IF Len(turns) \notin {1, coils_number} THEN err("ValueError: turns")
        ELSE IF rot_matrix.shape # <<3, 3>> THEN err("ValueError: rot_matrix")
        ELSE [status |-> "ok", coils_number |-> coils_number, L |-> L, h |-> h, N |-> N,
              I |-> current, A |-> rot_matrix,
              a |-> [i \in 1..coils_number |-> Half(L[i])],
              pos |-> get_spires_position(coils_number, h)]


(***************************************************************************)
(* More numpy helpers used by the geometry generators.                     *)
(***************************************************************************)
\* a / b rounded to the nearest integer, for b > 0
RoundDiv(a, b) == (2 * a + b) \div (2 * b)

\* np.linspace(lo, hi, n): n points from lo to hi, both included
Linspace(lo, hi, n) ==
    [i \in 1..n |-> IF n = 1 THEN lo
                    ELSE IF i = n THEN hi
                    ELSE lo + RoundDiv((i - 1) * (hi - lo), n - 1)]

\* r * np.sin(2 pi p / q), 0 <= p <= q, by Bhaskara's rational approximation
\* sin(pi w / q) ~ 16 w (q - w) / (5 q^2 - 4 w (q - w)), exact at multiples
\* of 30 and 90 degrees
SinTurn(p, q, r) ==
    LET u == (2 * p) % (2 * q)
        w == IF u <= q THEN u ELSE u - q
        s == IF u <= q THEN 1 ELSE -1
    IN  s * RoundDiv(r * 16 * w * (q - w), 5 * q * q - 4 * w * (q - w))

\* r * np.cos(2 pi p / q) = r * sin(2 pi p / q + pi / 2)
CosTurn(p, q, r) == SinTurn((4 * p + q) % (4 * q), 4 * q, r)

\* Python's round(num / den) for num >= 0, den > 0: ties go to the even integer
PyRound(num, den) ==
    LET q == num \div den
        r == num % den
    IN  IF 2 * r < den THEN q
        ELSE IF 2 * r > den THEN q + 1
        ELSE IF q % 2 = 0 THEN q ELSE q + 1

\* the (3, points) layout of a sequence of points: g.T
GroupT(pts) == [c \in 1..3 |-> [j \in 1..Len(pts) |-> pts[j][c]]]

\* number of points of a group in the (3, points) layout
GroupLen(g) == Len(g[1])

\* point k of a group in the (3, points) layout
GroupPoint(g, k) == <<g[1][k], g[2][k], g[3][k]>>

RECURSIVE Flatten(_)
Flatten(ss) == IF ss = <<>> THEN <<>> ELSE Head(ss) \o Flatten(Tail(ss))

\* np.einsum('ij,ljk->lik', M, sides - displacement), displacement = [pos, 0, 0]
Transform(M, sides, pos) ==
    [l \in 1..Len(sides) |->
        [i \in 1..3 |->
            [k \in 1..GroupLen(sides[l]) |->
                Dot3(M.m[i], <<Sub(sides[l][1][k], pos), sides[l][2][k], sides[l][3][k]>>)]]]

(***************************************************************************)
(* The geometry generators.  A result is a record: status "ok" and the     *)
(* list of polylines, or the exception raised.                             *)
(***************************************************************************)
NoSpires == [status |-> "none", kind |-> "none", num_seg |-> 0, param |-> 0, list |-> <<>>]

SpiresResult(status, kind, num_seg, param, list) ==
    [status |-> status, kind |-> kind, num_seg |-> num_seg, param |-> param, list |-> list]

\* the four sides of coil i in the local Y-Z plane, before the transformation
SquareSides(L0_half, L1_half, num_seg) ==
    LET y_coords == Linspace(L0_half, 0 - L0_half, num_seg)
        z_coords == Linspace(0 - L1_half, L1_half, num_seg)
        zeros == Ones(num_seg, 0)
    IN  << <<zeros, y_coords, Ones(num_seg, L1_half)>>,
           <<zeros, Ones(num_seg, 0 - L0_half), [k \in 1..num_seg |-> 0 - z_coords[k]]>>,
           <<zeros, [k \in 1..num_seg |-> 0 - y_coords[k]], Ones(num_seg, 0 - L1_half)>>,
           <<zeros, Ones(num_seg, L0_half), z_coords>> >>

\* square_spires(num_seg, b): b is <<>> for None, else np.atleast_1d(b)
square_spires(c, num_seg, b) ==
    LET bb == IF b = <<>> THEN c.a ELSE b
        \* h = self.h[i] if i < self.h.shape[0] else self.h[i-1], for i = 0 on an
        \* empty h, indexes an empty array
        hRaises == \E i \in 0..(c.coils_number - 1) : i >= Len(c.h) /\ Len(c.h) = 0
        bRaises == \E i \in 0..(c.coils_number - 1) : i >= Len(bb)
    IN  IF hRaises \/ bRaises
          THEN SpiresResult("IndexError", "square", num_seg, Len(b), <<>>)
          ELSE SpiresResult("ok", "square", num_seg, Len(b),
                 [i \in 1..c.coils_number |->
                     Transform(c.A, SquareSides(c.a[i], bb[i], num_seg), c.pos[i])])

\* the 4 * num_seg samples of the circle of radius r, as points (x, y, z)
CircleSamples(r, num_seg) ==
    LET M == 4 * num_seg
    IN  [k \in 1..M |-> <<0, SinTurn(M - k, M - 1, r), CosTurn(M - k, M - 1, r)>>]

CircularSides(r, num_seg) ==
    LET sc == CircleSamples(r, num_seg)
    IN  << GroupT(SubSeq(sc, 1, num_seg)),
           GroupT(SubSeq(sc, num_seg + 1, 2 * num_seg)),
           GroupT(SubSeq(sc, 2 * num_seg + 1, 3 * num_seg)),
           GroupT(SubSeq(sc, 3 * num_seg + 1, 4 * num_seg)) >>

circular_spires(c, num_seg) ==
    SpiresResult("ok", "circular", num_seg, 0,
        [i \in 1..c.coils_number |->
            Transform(c.A, CircularSides(Half(c.L[i]), num_seg), c.pos[i])])

\* the samples of a closed loop through the given vertices (the first vertex is
\* appended to close it), seg_per_edge points on each edge, flattened
EdgeSamples(verts, seg_per_edge) ==
    LET nv == Len(verts)
        closed == Append(verts, verts[1])
        edge(j) == LET ys == Linspace(closed[j][2], closed[j + 1][2], seg_per_edge)
                       zs == Linspace(closed[j][3], closed[j + 1][3], seg_per_edge)
                   IN  [k \in 1..seg_per_edge |-> <<0, ys[k], zs[k]>>]
    IN  Flatten([j \in 1..nv |-> edge(j)])

PolygonSamples(r, num_seg, n) ==
    EdgeSamples([j \in 1..n |-> <<0, SinTurn(j - 1, n, r), CosTurn(j - 1, n, r)>>],
                PyRound(4 * num_seg, n))

\* np.array_split(points, 4): the first (total % 4) groups get one point more
ArraySplit4(pts) ==
    LET T == Len(pts)
        q == T \div 4
        r == T % 4
        size(g) == IF g <= r THEN q + 1 ELSE q
        start(g) == (g - 1) * q + Min(g - 1, r)
    IN  [g \in 1..4 |-> SubSeq(pts, start(g) + 1, start(g) + size(g))]

\* np.array([g.T for g in groups]) raises on groups of different sizes
Ragged(groups) == \E g \in 1..Len(groups) : Len(groups[g]) # Len(groups[1])

polygonal_spires(c, num_seg, n) ==
    LET groupsOf(i) == ArraySplit4(PolygonSamples(Half(c.L[i]), num_seg, n))
    IN  IF \E i \in 1..c.coils_number : Ragged(groupsOf(i))
          THEN SpiresResult("ValueError", "polygonal", num_seg, n, <<>>)
          ELSE SpiresResult("ok", "polygonal", num_seg, n,
                 [i \in 1..c.coils_number |->
                     Transform(MatMul(c.A, rotz_180),
                               [g \in 1..4 |-> GroupT(groupsOf(i)[g])], c.pos[i])])

StarSamples(r, num_seg, star_points) ==
    LET total_vertices == star_points * 2
        radius(j) == IF (j - 1) % 2 = 0 THEN r ELSE Half(r)
    IN  EdgeSamples([j \in 1..total_vertices |->
                        <<0, SinTurn(j - 1, total_vertices, radius(j)),
                             CosTurn(j - 1, total_vertices, radius(j))>>],
                    (4 * num_seg) \div total_vertices)

\* star_edges[i * points_per_group : (i + 1) * points_per_group], i = 0..3
StarGroups(pts) ==
    LET points_per_group == Len(pts) \div 4
    IN  [g \in 1..4 |-> SubSeq(pts, (g - 1) * points_per_group + 1, g * points_per_group)]

star_spires(c, num_seg, star_points) ==
    SpiresResult("ok", "star", num_seg, star_points,
        [i \in 1..c.coils_number |->
            Transform(MatMul(c.A, rotz_180),
                      [g \in 1..4 |-> GroupT(StarGroups(StarSamples(Half(c.L[i]), num_seg, star_points))[g])],
                      c.pos[i])])


(***************************************************************************)
(* generate_range: the per-axis value sequences and the observation points *)
(***************************************************************************)
\* np.arange(start, stop, step) for step > 0: ceil((stop - start) / step) values
Arange(start, stop, step) ==
    LET len == IF stop > start THEN (stop - start + step - 1) \div step ELSE 0
    IN  [k \in 1..len |-> start + (k - 1) * step]

SeqToSet(s) == {s[k] : k \in 1..Len(s)}

\* the elements of a finite set of numbers in increasing order
RECURSIVE SortedSeq(_)
SortedSeq(S) ==
    IF S = {} THEN <<>>
    ELSE LET m == CHOOSE x \in S : \A y \in S : x <= y
         IN  <<m>> \o SortedSeq(S \ {m})

\* np.unique of a 1-D array: its distinct values, sorted
Unique(s) == SortedSeq(SeqToSet(s))

LexLess(p, q) ==
    \/ p[1] < q[1]
    \/ p[1] = q[1] /\ p[2] < q[2]
    \/ p[1] = q[1] /\ p[2] = q[2] /\ p[3] < q[3]

RECURSIVE SortedRows(_)
SortedRows(S) ==
    IF S = {} THEN <<>>
    ELSE LET m == CHOOSE x \in S : \A y \in S : x = y \/ LexLess(x, y)
         IN  <<m>> \o SortedRows(S \ {m})

\* the stacked rows as they are, repeated rows kept
RowsWithRepeats(rows) == rows

\* np.unique(points, axis=0): the distinct rows, sorted lexicographically
UniqueRows(rows) == SortedRows(SeqToSet(rows))

\* the fixed-step samples alone, without the critical values lo, 0, hi
AxisValuesNoCritical(range, step) ==
    Unique(Arange(range[1], range[2] + step, step))

\* range_vals = np.unique(np.concatenate((np.arange(lo, hi + step, step), [lo, 0, hi])))
AxisValues(range, step) ==
    Unique(Arange(range[1], range[2] + step, step) \o <<range[1], 0, range[2]>>)

\* U, V = np.meshgrid(us, vs) flattened: row-major over (v, u)
MeshPairs(us, vs) ==
    [k \in 1..(Len(us) * Len(vs)) |->
        <<us[((k - 1) % Len(us)) + 1], vs[((k - 1) \div Len(us)) + 1]>>]

\* generate_range(x_range, y_range, z_range, step_size_x, step_size_y, step_size_z);
\* <<>> stands for None
generate_range(x_range, y_range, z_range, step_size_x, step_size_y, step_size_z) ==
    LET yr == IF y_range = <<>> THEN <<0, 0>> ELSE y_range
        zr == IF z_range = <<>> THEN <<0, 0>> ELSE z_range
        sy == IF step_size_y = <<>> THEN step_size_x ELSE step_size_y[1]
        sz == IF step_size_z = <<>> THEN step_size_x ELSE step_size_z[1]
        xs == AxisValues(x_range, step_size_x)
        ys == AxisValues(yr, sy)
        zs == AxisValues(zr, sz)
        xy == MeshPairs(xs, ys)
        yz == MeshPairs(ys, zs)
        xz == MeshPairs(xs, zs)
        rows == [k \in 1..Len(xy) |-> <<xy[k][1], xy[k][2], 0>>]
                \o [k \in 1..Len(yz) |-> <<0, yz[k][1], yz[k][2]>>]
                \o [k \in 1..Len(xz) |-> <<xz[k][1], 0, xz[k][2]>>]
    IN  [status |-> "ok",
         x_range |-> x_range, y_range |-> yr, z_range |-> zr,
         step_x |-> step_size_x, step_y |-> sy, step_z |-> sz,
         range_vals_x |-> xs, range_vals_y |-> ys, range_vals_z |-> zs,
         points |-> UniqueRows(rows)]

\* sequential_test.generate_range(a, grid_number): the values of one axis from
\* -2a to 2a; np.arange(-2 * a, 2 * a, grid_number) excludes its stop value
generate_range_seq(a, grid_number) ==
    LET lo == 0 - 2 * a
        hi == 2 * a
        combined_vals == Unique(Arange(lo, hi, grid_number) \o <<lo, 0, hi>>)
    IN  [status |-> "axis",
         x_range |-> <<lo, hi>>, y_range |-> <<0, 0>>, z_range |-> <<0, 0>>,
         step_x |-> grid_number, step_y |-> 0, step_z |-> 0,
         range_vals_x |-> combined_vals, range_vals_y |-> <<>>, range_vals_z |-> <<>>,
         points |-> <<>>]

(***************************************************************************)
(* The Biot-Savart field.  A field component is an integer in units of     *)
(* 1 / FieldScale of (1e-7 T x model length); MU_0 / (4 pi) = 1e-7 is the  *)
(* unit, so A1 = N * I.  A numpy array of coils is a record of its number  *)
(* of dimensions nd and its data d.                                        *)
(***************************************************************************)
FieldScale == 1000

\* the integer square root
RECURSIVE IsqrtBetween(_, _, _)
IsqrtBetween(n, lo, hi) ==
    IF lo >= hi THEN lo
    ELSE LET mid == (lo + hi + 1) \div 2
         IN  IF mid * mid <= n THEN IsqrtBetween(n, mid, hi)
                               ELSE IsqrtBetween(n, lo, mid - 1)

Isqrt(n) == IsqrtBetween(n, 0, Min(n, 46340))

\* a / b truncated toward zero, b > 0
Quot(a, b) == IF a >= 0 THEN a \div b ELSE 0 - ((0 - a) \div b)

\* np.cross(u, v)
Cross(u, v) ==
    <<u[2] * v[3] - u[3] * v[2], u[3] * v[1] - u[1] * v[3], u[1] * v[2] - u[2] * v[1]>>

VecAdd(u, v) == <<Add(u[1], v[1]), Add(u[2], v[2]), Add(u[3], v[3])>>

NaNVec == <<NaN, NaN, NaN>>

ZeroVec == <<0, 0, 0>>

HasNaN(p) == \E c \in 1..3 : IsNaN(p[c])

\* A1 * np.cross(dl, R) / np.linalg.norm(R)**3 for a scalar factor A1c per
\* component; |R| = 0 divides 0 by 0
BiotSavart(A1v, dl, R) ==
    LET R2 == R[1] * R[1] + R[2] * R[2] + R[3] * R[3]
        norm3 == R2 * Isqrt(R2 * 10000)
        cr == Cross(dl, R)
    IN  IF HasNaN(dl) \/ HasNaN(R) \/ R2 = 0 THEN NaNVec
        ELSE [c \in 1..3 |-> Quot(A1v[c] * FieldScale * 100 * cr[c], norm3)]

\* the sum of f[lo], ..., f[hi] of vectors
RECURSIVE VecSum(_, _, _)
VecSum(f, lo, hi) == IF lo > hi THEN ZeroVec ELSE VecAdd(f[lo], VecSum(f, lo + 1, hi))

FieldError == [err |-> TRUE, B |-> ZeroVec]

\* numpy broadcasting of the factor A1 (an array of len(N) entries, or a
\* scalar given as one entry) against a 3-vector
A1Broadcasts(A1) == Len(A1) \in {1, 3}

A1Vector(A1) == IF Len(A1) = 1 THEN <<A1[1], A1[1], A1[1]>> ELSE A1

PointSub(p, q) == <<Sub(p[1], q[1]), Sub(p[2], q[2]), Sub(p[3], q[3])>>

\* the distance vector R taken from the end point of each segment
calculate_field_from_end(A1, P, side) ==
    IF side.nd # 3 \/ ~A1Broadcasts(A1) THEN FieldError
    ELSE LET d == side.d
             npts(k) == GroupLen(d[k])
             dB(k, j) == BiotSavart(A1Vector(A1),
                                    PointSub(GroupPoint(d[k], j + 1), GroupPoint(d[k], j)),
                                    PointSub(P, GroupPoint(d[k], j + 1)))
             ofSide(k) == VecSum([j \in 1..(npts(k) - 1) |-> dB(k, j)], 1, npts(k) - 1)
         IN  [err |-> FALSE, B |-> VecSum([k \in 1..Len(d) |-> ofSide(k)], 1, Len(d))]

\* calculate_field((A1, P, side)): side has the layout (sides, 3, points).
\* On a 4-dimensional array (coils, 4, 3, points) np.diff(axis=2) runs over the
\* coordinate axis and side[k, :, j] is a (4, points) block: P - side[k, :, j]
\* does not broadcast unless points is 1 or 3, np.cross rejects rows of 1 entry
\* and B += dB rejects a (4, 3) block, so every such call raises.
calculate_field(A1, P, side) ==
    IF side.nd # 3 \/ ~A1Broadcasts(A1) THEN FieldError
    ELSE LET d == side.d
             npts(k) == GroupLen(d[k])
             dB(k, j) == BiotSavart(A1Vector(A1),
                                    PointSub(GroupPoint(d[k], j + 1), GroupPoint(d[k], j)),
                                    PointSub(P, GroupPoint(d[k], j)))
             ofSide(k) == VecSum([j \in 1..(npts(k) - 1) |-> dB(k, j)], 1, npts(k) - 1)
         IN  [err |-> FALSE, B |-> VecSum([k \in 1..Len(d) |-> ofSide(k)], 1, Len(d))]

\* the full chunks only: the sides after the last multiple of n are left out
ChunksFullOnly(coils, n) ==
    LET K == Len(coils.d)
    IN  [c \in 1..(K \div n) |->
            [nd |-> coils.nd, d |-> SubSeq(coils.d, (c - 1) * n + 1, c * n)]]

\* coils[j:j+n, :, :] for j in range(0, coils.shape[0], n)
Chunks(coils, n) ==
    LET K == Len(coils.d)
    IN  [c \in 1..((K + n - 1) \div n) |->
            [nd |-> coils.nd, d |-> SubSeq(coils.d, (c - 1) * n + 1, Min(c * n, K))]]

\* B = np.sum(B_segments, axis=0) for one point: the sum over the chunks of
\* calculate_field; an exception in a worker is raised by pool.map
RECURSIVE SumSegments(_, _, _, _)
SumSegments(A1, p, chunks, c) ==
    IF c > Len(chunks) THEN [err |-> FALSE, B |-> ZeroVec]
    ELSE LET seg == calculate_field(A1, p, chunks[c])
             rest == SumSegments(A1, p, chunks, c + 1)
         IN  IF seg.err \/ rest.err THEN FieldError
             ELSE [err |-> FALSE, B |-> VecAdd(seg.B, rest.B)]

\* the fields of the points P[i], P[i + 1], ... in order
RECURSIVE FieldsFrom(_, _, _, _)
FieldsFrom(A1, P, chunks, i) ==
    IF i > Len(P) THEN [err |-> FALSE, B |-> <<>>]
    ELSE LET here == SumSegments(A1, P[i], chunks, 1)
             rest == FieldsFrom(A1, P, chunks, i + 1)
         IN  IF here.err \/ rest.err THEN [err |-> TRUE, B |-> <<>>]
             ELSE [err |-> FALSE, B |-> <<here.B>> \o rest.B]

\* magnetic_field_square_coil_parallel(P, N, I, coils, n): P is a sequence of
\* points and the result has one field vector per point
magnetic_field_square_coil_parallel(P, N, I, coils, n) ==
    FieldsFrom([k \in 1..Len(N) |-> N[k] * I], P, Chunks(coils, n), 1)

\* sequential_test.magnetic_field_square_coil(P, N, I, spire1, spire2): the
\* loops run over spire1's sides and segments and index spire2 with them
magnetic_field_square_coil(P, N, I, spire1, spire2) ==
    LET A1 == <<N * I, N * I, N * I>>
        npts == GroupLen(spire1[1])
        short == \/ Len(spire2) < Len(spire1)
                 \/ Len(spire1) > 0 /\ npts > 1 /\ GroupLen(spire2[1]) < npts
        dB(sp, i, j) == BiotSavart(A1, PointSub(GroupPoint(sp[i], j + 1), GroupPoint(sp[i], j)),
                                   PointSub(P, GroupPoint(sp[i], j)))
        total(sp) == VecSum([i \in 1..Len(spire1) |->
                               VecSum([j \in 1..(npts - 1) |-> dB(sp, i, j)], 1, npts - 1)],
                            1, Len(spire1))
    IN  IF short THEN [err |-> TRUE, B |-> ZeroVec, B1 |-> ZeroVec, B2 |-> ZeroVec]
        ELSE [err |-> FALSE, B |-> VecAdd(total(spire1), total(spire2)),
              B1 |-> total(spire1), B2 |-> total(spire2)]

\* sequential_test.square_spires(A, h, a, num_seg): two square coils, the first
\* at local x = h / 2 and the second at x = -h / 2
square_spires_seq(A, h, a, num_seg) ==
    LET h_half == Half(h)
        y_coords == Linspace(a, 0 - a, num_seg)
        z_coords == Linspace(0 - a, a, num_seg)
        xs == Ones(num_seg, h_half)
        sides == << <<xs, y_coords, Ones(num_seg, a)>>,
                    <<xs, Ones(num_seg, 0 - a), y_coords>>,
                    <<xs, z_coords, Ones(num_seg, 0 - a)>>,
                    <<xs, Ones(num_seg, a), z_coords>> >>
    IN  <<Transform(A, sides, 0), Transform(A, sides, h)>>

\* np.concatenate([spire[np.newaxis, ...] for spire in spires_list], axis=0):
\* one more dimension than the elements of spires_list have
ConcatNewAxis(spires_list) == [nd |-> spires_list.elem_nd + 1, d |-> spires_list.items]

\* the batches X_flat[k : k + batch_size] for k in range(0, len(X_flat), batch_size),
\* as index ranges <<first, last>>
BatchRanges(len, batch_size) ==
    [b \in 1..((len + batch_size - 1) \div batch_size) |->
        <<(b - 1) * batch_size + 1, Min(b * batch_size, len)>>]

\* the rows of the batches ranges[b], ranges[b + 1], ...: the points of a batch
\* next to their fields (np.hstack), the batches one after the other
RECURSIVE BatchRows(_, _, _, _, _, _, _, _, _)
BatchRows(X, Y, Z, N, current, coils, parallel_coils, ranges, b) ==
    IF b > Len(ranges) THEN [status |-> "ok", rows |-> <<>>]
    ELSE LET lo == ranges[b][1]
             P_batch == [k \in 1..(ranges[b][2] - lo + 1) |->
                            <<X[lo + k - 1], Y[lo + k - 1], Z[lo + k - 1]>>]
             B == magnetic_field_square_coil_parallel(P_batch, N, current, coils,
                                                      parallel_coils)
             rest == BatchRows(X, Y, Z, N, current, coils, parallel_coils, ranges, b + 1)
         IN  IF B.err \/ rest.status # "ok" THEN [status |-> "raised", rows |-> <<>>]
             ELSE [status |-> "ok",
                   rows |-> [k \in 1..Len(P_batch) |-> P_batch[k] \o B.B[k]] \o rest.rows]

\* coil_simulation_1d_sequential(X, Y, Z, coil_params, current, spires_list,
\* parallel_coils, batch_size): the table of rows (X, Y, Z, Bx, By, Bz), or the
\* exception raised by a batch
coil_simulation_1d_sequential(X, Y, Z, N, current, spires_list, parallel_coils, batch_size) ==
    BatchRows(X, Y, Z, N, current, ConcatNewAxis(spires_list), parallel_coils,
              BatchRanges(Len(X), batch_size), 1)

(***************************************************************************)
(* HelmholtzOptimizer.fitness_function.  coil_Results is a sequence of     *)
(* rows [X, Y, Z, Bx]; Bx is an integer, and a comparison with             *)
(* target_point -/+ 0.001 * target_point is made exactly, multiplied       *)
(* through by 1000 and by the denominator of target_point.                 *)
(***************************************************************************)
Penalty == 5000

ToleranceDen == 1000

\* the sum of s[lo..hi]
RECURSIVE SumInts(_, _, _)
SumInts(s, lo, hi) == IF lo > hi THEN 0 ELSE s[lo] + SumInts(s, lo + 1, hi)

\* sort_values: the values of a sequence of numbers in increasing order,
\* repeated values kept
RECURSIVE SortValues(_)
SortValues(s) ==
    IF s = <<>> THEN <<>>
    ELSE LET k == CHOOSE i \in 1..Len(s) : \A j \in 1..Len(s) : s[i] <= s[j]
         IN  <<s[k]>> \o SortValues(SubSeq(s, 1, k - 1) \o SubSeq(s, k + 1, Len(s)))

\* target_point as the fraction num / den: the Bx of the first row at the
\* origin, or the mean Bx of all rows when no row is at the origin
TargetPoint(coil_Results) ==
    LET IsOrigin(r) == r.X = 0 /\ r.Y = 0 /\ r.Z = 0
        target == SelectSeq(coil_Results, IsOrigin)
    IN  IF target = <<>>
          THEN [num |-> SumInts([k \in 1..Len(coil_Results) |-> coil_Results[k].Bx],
                                1, Len(coil_Results)),
                den |-> Len(coil_Results)]
          ELSE [num |-> target[1].Bx, den |-> 1]

\* lower_bound_tol <= Bx <= upper_bound_tol with tolerance = 0.001 * target_point,
\* or 0.001 when target_point is 0
InToleranceBand(Bx, target_point) ==
    IF target_point.num # 0
      THEN /\ ToleranceDen * target_point.den * Bx >= ToleranceDen * target_point.num - target_point.num
           /\ ToleranceDen * target_point.den * Bx <= ToleranceDen * target_point.num + target_point.num
      ELSE /\ ToleranceDen * Bx >= -1
           /\ ToleranceDen * Bx <= 1

\* the X of filtered_points, sorted
FilteredX(coil_Results) ==
    LET target_point == TargetPoint(coil_Results)
        InBand(r) == InToleranceBand(r.Bx, target_point)
        filtered == SelectSeq(coil_Results, InBand)
    IN  SortValues([k \in 1..Len(filtered) |-> filtered[k].X])

IsContiguous(xs, self_grid_length_size) ==
    /\ Len(xs) > 1
    /\ \A i \in 1..(Len(xs) - 1) : xs[i + 1] - xs[i] <= 2 * self_grid_length_size

\* the result of fitness_function for the table coil_Results
FitnessOf(coil_Results, desired_size, self_grid_length_size) ==
    LET xs == FilteredX(coil_Results)
    IN  IF ~IsContiguous(xs, self_grid_length_size) THEN Penalty
        ELSE desired_size \div 2 - (xs[Len(xs)] - xs[1])

\* coil.update_parameters(length=L, distance=d): the shared coil takes the
\* candidate's length and spacing, its other parameters kept
update_parameters(c, length, distance) ==
    CoilParameters(c.coils_number, <<length>>, <<distance>>, c.N, c.I, c.A)

\* sim.coil_simulation_parallel(X, Y, Z, coil, spires, batch_Size): one row
\* per observation point with the field of all the sides of all the coils
coil_simulation_parallel(X, Y, Z, c, spires_list, batch_Size) ==
    LET P == [k \in 1..Len(X) |-> <<X[k], Y[k], Z[k]>>]
        coils == [nd |-> 3, d |-> Flatten(spires_list)]
        B == magnetic_field_square_coil_parallel(P, <<c.N[1]>>, c.I, coils, Len(coils.d)).B
    IN  [k \in 1..Len(X) |-> [X |-> X[k], Y |-> Y[k], Z |-> Z[k], Bx |-> B[k][1]]]

\* X, Y, Z = sim.generate_range([-1 * (np.sum(coil.h) / 2), 0], step_size_x=grid_length_size)
AxisPoints(c, grid_length_size) ==
    generate_range(<<0 - Half(SumInts(c.h, 1, Len(c.h))), 0>>, <<>>, <<>>,
                   grid_length_size, <<>>, <<>>)

\* fitness_cache[key] = result
CacheWith(fitness_cache, key, result) ==
    [k \in (DOMAIN fitness_cache) \cup {key} |->
        IF k = key THEN result ELSE fitness_cache[k]]

\* the table of the points and of the Bx column the simulation returns for them
ResultsTable(points, Bx) ==
    [k \in 1..Len(points) |->
        [X |-> points[k][1], Y |-> points[k][2], Z |-> points[k][3], Bx |-> Bx[k]]]

\* the evaluation without the cache lookup: every call recomputes and stores
fitness_function_no_lookup(self, c, sp, g, individual, grid_length_size, Bx) ==
    LET key == <<individual[1], individual[2]>>
        c2 == update_parameters(c, individual[1], individual[2])
        spires_list == square_spires(c2, self.num_seg, <<>>)
        g2 == AxisPoints(c2, grid_length_size)
        coil_Results == ResultsTable(g2.points, Bx)
        result == FitnessOf(coil_Results, self.desired_size, self.grid_length_size)
    IN  [opt |-> [self EXCEPT
                    !.fitness_cache = CacheWith(self.fitness_cache, key, result),
                    !.last = [key |-> key, grid_length_size |-> grid_length_size,
                              hit |-> FALSE, coil_Results |-> coil_Results,
                              result |-> result]],
         coil |-> c2, spires |-> spires_list, grid |-> g2]

\* fitness_function(self, individual, grid_length_size, num_seg=self.num_seg)
\* with self.fun = coil.square_spires: the optimizer, the shared coil, the
\* geometry and the grid after the call.  Bx is the Bx column of the table
\* sim.coil_simulation_parallel returns for the points of the call.
fitness_function(self, c, sp, g, individual, grid_length_size, Bx) ==
    LET key == <<individual[1], individual[2]>>
    IN  IF key \in DOMAIN self.fitness_cache
          THEN [opt |-> [self EXCEPT !.last =
                            [key |-> key, grid_length_size |-> grid_length_size,
                             hit |-> TRUE, coil_Results |-> <<>>,
                             result |-> self.fitness_cache[key]]],
                coil |-> c, spires |-> sp, grid |-> g]
          ELSE LET c2 == update_parameters(c, individual[1], individual[2])
                   spires_list == square_spires(c2, self.num_seg, <<>>)
                   g2 == AxisPoints(c2, grid_length_size)
                   coil_Results == ResultsTable(g2.points, Bx)
                   result == FitnessOf(coil_Results, self.desired_size, self.grid_length_size)
               IN  [opt |-> [self EXCEPT
                               !.fitness_cache = CacheWith(self.fitness_cache, key, result),
                               !.last = [key |-> key, grid_length_size |-> grid_length_size,
                                         hit |-> FALSE, coil_Results |-> coil_Results,
                                         result |-> result]],
                    coil |-> c2, spires |-> spires_list, grid |-> g2]

\* the Bx column sim.coil_simulation_parallel returns in a call of
\* fitness_function for the candidate individual
SimulatedBx(self, c, individual, grid_length_size) ==
    LET c2 == update_parameters(c, individual[1], individual[2])
        spires_list == square_spires(c2, self.num_seg, <<>>)
        points == AxisPoints(c2, grid_length_size).points
        X == [k \in 1..Len(points) |-> points[k][1]]
        Y == [k \in 1..Len(points) |-> points[k][2]]
        Z == [k \in 1..Len(points) |-> points[k][3]]
        coil_Results == coil_simulation_parallel(X, Y, Z, c2, spires_list.list, 120)
    IN  [k \in 1..Len(points) |-> coil_Results[k].Bx]

(***************************************************************************)
(* Inputs of the bounded model.                                            *)
(***************************************************************************)
\* sequences of length 0..n over the set S
SeqsUpTo(S, n) == UNION {[1..k -> S] : k \in 0..n}

\* length (and turns) arguments: k distinct entries, k = 0..MaxCoils + 1
RampInputs(unit) == {[i \in 1..k |-> unit * i] : k \in 0..(MaxCoils + 1)}

LengthInputs == RampInputs(12)

TurnsInputs == RampInputs(10)

HeightInputs == SeqsUpTo({2, 4}, MaxCoils)

RotInputs == {Identity3, RotZ90, MirrorZ, Scale2, Mat2x3}

NoArgs == [coils_number |-> 0, length |-> <<>>, height |-> <<>>, turns |-> <<>>,
           rot_matrix |-> Identity3]

(***************************************************************************)
(* Coil construction and geometry generation as a state machine: a coil is *)
(* constructed once and then read by a generator.  A generator reads only  *)
(* the coil, so one call per behaviour reaches every result.               *)
(***************************************************************************)
InitCoil ==
    /\ args = NoArgs
    /\ coil = NoCoil
    /\ spires = NoSpires

NewCoil ==
    /\ coil.status = "none"
    /\ \E cn \in 1..MaxCoils, length \in LengthInputs, height \in HeightInputs,
          turns \in TurnsInputs, rot \in RotInputs :
          /\ args' = [coils_number |-> cn, length |-> length, height |-> height,
                      turns |-> turns, rot_matrix |-> rot]
          /\ coil' = CoilParameters(cn, length, height, turns, 1, rot)
    /\ UNCHANGED <<spires, grid, fld, sim, opt, frames, ga>>

GenSquare ==
    /\ coil.status = "ok"
    /\ spires.status = "none"
    /\ \E num_seg \in 1..MaxNumSeg, b \in {<<>>, <<8>>} :
          spires' = square_spires(coil, num_seg, b)
    /\ UNCHANGED <<args, coil, grid, fld, sim, opt, frames, ga>>

GenCircular ==
    /\ coil.status = "ok"
    /\ spires.status = "none"
    /\ \E num_seg \in 1..MaxNumSeg : spires' = circular_spires(coil, num_seg)
    /\ UNCHANGED <<args, coil, grid, fld, sim, opt, frames, ga>>

GenPolygonal ==
    /\ coil.status = "ok"
    /\ spires.status = "none"
    /\ \E num_seg \in 1..MaxNumSeg, n \in 3..MaxSides :
          spires' = polygonal_spires(coil, num_seg, n)
    /\ UNCHANGED <<args, coil, grid, fld, sim, opt, frames, ga>>

GenStar ==
    /\ coil.status = "ok"
    /\ spires.status = "none"
    /\ \E num_seg \in 1..MaxNumSeg, star_points \in 2..MaxStarPoints :
          spires' = star_spires(coil, num_seg, star_points)
    /\ UNCHANGED <<args, coil, grid, fld, sim, opt, frames, ga>>

NoGrid ==
    [status |-> "none", x_range |-> <<0, 0>>, y_range |-> <<0, 0>>, z_range |-> <<0, 0>>,
     step_x |-> 0, step_y |-> 0, step_z |-> 0,
     range_vals_x |-> <<>>, range_vals_y |-> <<>>, range_vals_z |-> <<>>, points |-> <<>>]

NoFld ==
    [status |-> "none", spire1 |-> <<>>, spire2 |-> <<>>, P |-> ZeroVec, N |-> 0, I |-> 0,
     n |-> 0, Bpar |-> FieldError, Bseq |-> FieldError]

NoSim ==
    [status |-> "none", X |-> <<>>, Y |-> <<>>, Z |-> <<>>, N |-> <<>>, from_generator |-> FALSE,
     spires_list |-> [elem_nd |-> 0, items |-> <<>>], parallel_coils |-> 0, batch_size |-> 0,
     rows |-> <<>>]

\* the record of the last fitness_function call: its key, its grid_length_size
\* argument, whether the key was in the cache, the table it evaluated and
\* the value it returned
NoCall ==
    [key |-> <<0, 0>>, grid_length_size |-> 0, hit |-> FALSE, coil_Results |-> <<>>,
     result |-> 0]

\* no optimizer constructed; a cache is a function on the keys it holds
NoOpt ==
    [status |-> "none", desired_size |-> 0, grid_length_size |-> 0, num_seg |-> 0,
     fitness_cache |-> <<>>, last |-> NoCall]

\* no fitness_function call in progress
NoFrames == <<>>

\* no genetic algorithm set up
NoGA ==
    [status |-> "none", fix_L |-> FALSE, fixed_L_value |-> 0,
     min_L |-> 0, max_L |-> 0, min_d |-> 0, max_d |-> 0,
     pop |-> <<>>, evaluated |-> {}, ops |-> 0]

Init ==
    /\ InitCoil
    /\ grid = NoGrid
    /\ fld = NoFld
    /\ sim = NoSim
    /\ opt = NoOpt
    /\ frames = NoFrames
    /\ ga = NoGA

NextCoil == NewCoil \/ GenSquare \/ GenCircular \/ GenPolygonal \/ GenStar

SpecCoil == Init /\ [][NextCoil]_vars

(***************************************************************************)
(* C4-C9: construction, positions and generated geometry.                  *)
(***************************************************************************)
Constructed == coil.status # "none"

BadLengths ==
    \/ Len(args.length) \notin {1, args.coils_number}
    \/ Len(args.turns) \notin {1, args.coils_number}
    \/ Len(args.height) \notin {1, args.coils_number - 1}
    \/ args.rot_matrix.shape # <<3, 3>>

\* what a valid argument of n-or-1 entries must become: itself, or its one
\* entry repeated n times
Broadcast(arg, n) == IF Len(arg) = 1 THEN [i \in 1..n |-> arg[1]] ELSE arg

\* C4: construction raises ValueError exactly when one of the three lengths is
\* not 1 or the expected count or rot_matrix is not 3x3; otherwise it succeeds,
\* L and N have coils_number entries and h has coils_number - 1, a one-entry
\* input is repeated for every coil and a full-length input is kept as given.
C4_ConstructionValidates ==
    Constructed =>
        /\ BadLengths <=> coil.status \in {"ValueError: length", "ValueError: height",
                                           "ValueError: turns", "ValueError: rot_matrix"}
        /\ ~BadLengths =>
              /\ coil.status = "ok"
              /\ Len(coil.L) = args.coils_number
              /\ Len(coil.N) = args.coils_number
              /\ Len(coil.h) = args.coils_number - 1
              /\ coil.L = Broadcast(args.length, args.coils_number)
              /\ coil.N = Broadcast(args.turns, args.coils_number)
              /\ coil.h = Broadcast(args.height, args.coils_number - 1)

C4_Witness ==
    /\ coil.status = "ok"
    /\ args.coils_number = 3
    /\ Len(args.length) = 1
    /\ Len(args.height) = 2
    /\ Len(args.turns) = 3

\* C5: no constructed coil holds a matrix that is not a rotation (orthonormal,
\* determinant +1); such a matrix is rejected at construction.
C5_OnlyRotationsAccepted ==
    coil.status = "ok" => IsRotation(coil.A)

\* the position the claim gives coil i (1-based) for spacings h: minus the
\* spacings accumulated up to the midpoint before it, plus those after it
RECURSIVE SumSeq(_, _, _)
SumSeq(h, lo, hi) == IF lo > hi THEN 0 ELSE h[lo] + SumSeq(h, lo + 1, hi)

ClaimedPosition(cn, h, i) ==
    IF cn % 2 = 1
      THEN LET m == (cn + 1) \div 2
           IN  IF i <= m THEN 0 - SumSeq(h, i, m - 1) ELSE SumSeq(h, m, i - 1)
      ELSE LET m == cn \div 2
           IN  IF i <= m THEN 0 - (h[m] \div 2) - SumSeq(h, i, m - 1)
                         ELSE (h[m] \div 2) + SumSeq(h, m + 1, i - 1)

\* C6: for every coils_number >= 1 every coil has a defined position, centred
\* on the origin as the claim describes.
C6_PositionsCentred ==
    coil.status = "ok" =>
        \A i \in 1..coil.coils_number :
            /\ ~IsNaN(coil.pos[i])
            /\ coil.pos[i] = ClaimedPosition(coil.coils_number, coil.h, i)

\* C20: for two or more coils every position is defined and neighbouring
\* positions differ by exactly the configured spacing, pos[i+1] - pos[i] = h[i],
\* so with positive spacings the positions increase strictly.
C20_NeighboursSpacedByH ==
    (coil.status = "ok" /\ coil.coils_number >= 2) =>
        \A i \in 1..(coil.coils_number - 1) :
            /\ ~IsNaN(coil.pos[i]) /\ ~IsNaN(coil.pos[i + 1])
            /\ coil.pos[i + 1] - coil.pos[i] = coil.h[i]
            /\ coil.pos[i] < coil.pos[i + 1]

\* three coils with two different spacings
C20_Witness ==
    /\ coil.status = "ok"
    /\ coil.coils_number = 3
    /\ coil.h = <<2, 4>>
    /\ coil.pos = <<-2, 0, 4>>

Generated == spires.status # "none"

\* the parameters the claim quantifies over; b is left at its default
ClaimedCall == spires.kind = "square" => spires.param = 0

\* C7: every generator call returns coils_number polylines of exactly 4 groups,
\* each group of 3 coordinate rows, all groups with the same number of points.
\* Stated for arrangements of two or more coils, whose positions are defined.
C7_FourEqualGroups ==
    (Generated /\ ClaimedCall /\ coil.coils_number >= 2) =>
        /\ spires.status = "ok"
        /\ Len(spires.list) = coil.coils_number
        /\ \A i \in 1..Len(spires.list) :
              /\ Len(spires.list[i]) = 4
              /\ \A g \in 1..4 :
                    /\ Len(spires.list[i][g]) = 3
                    /\ \A c \in 1..3 :
                          Len(spires.list[i][g][c]) = Len(spires.list[i][1][1])

\* the origin-centred loop of coil i in the local Y-Z plane, for square and
\* circular profiles
LocalLoop(i) ==
    IF spires.kind = "square"
      THEN SquareSides(coil.a[i], coil.a[i], spires.num_seg)
      ELSE CircularSides(Half(coil.L[i]), spires.num_seg)

\* C8: each point of coil i of a square or circular profile is A applied to
\* the local loop point moved to axial coordinate pos_i.
C8_DisplacedToPosThenRotated ==
    (spires.status = "ok" /\ spires.kind \in {"square", "circular"} /\ ClaimedCall) =>
        \A i \in 1..coil.coils_number :
            \A g \in 1..4 :
                \A k \in 1..GroupLen(spires.list[i][g]) :
                    LET q == GroupPoint(LocalLoop(i)[g], k)
                    IN  GroupPoint(spires.list[i][g], k)
                          = MatVec(coil.A, <<Add(q[1], coil.pos[i]), q[2], q[3]>>)

\* every sample generated for the loop of coil i, in generation order
LoopSamples(i) ==
    CASE spires.kind = "square" ->
            Flatten([g \in 1..4 |->
                [k \in 1..spires.num_seg |->
                    GroupPoint(SquareSides(coil.a[i], coil.a[i], spires.num_seg)[g], k)]])
      [] spires.kind = "circular" -> CircleSamples(Half(coil.L[i]), spires.num_seg)
      [] spires.kind = "polygonal" ->
            PolygonSamples(Half(coil.L[i]), spires.num_seg, spires.param)
      [] OTHER -> StarSamples(Half(coil.L[i]), spires.num_seg, spires.param)

LoopMatrix ==
    IF spires.kind \in {"square", "circular"} THEN coil.A ELSE MatMul(coil.A, rotz_180)

\* the points of polyline i, its 4 groups taken in order
PolylinePoints(i) ==
    Flatten([g \in 1..4 |->
        [k \in 1..GroupLen(spires.list[i][g]) |-> GroupPoint(spires.list[i][g], k)]])

\* C9: for num_seg >= 2 the 4 groups of every generated polyline, taken in
\* order, are exactly the samples generated for the closed loop: none is
\* dropped, so consecutive groups meet in neighbouring samples and the last
\* group ends at the last generated sample, where the loop closes.  Stated
\* for arrangements of two or more coils, whose positions are defined.
C9_GroupsCoverClosedLoop ==
    (spires.status = "ok" /\ ClaimedCall /\ spires.num_seg >= 2 /\ coil.coils_number >= 2) =>
        \A i \in 1..coil.coils_number :
            LET all == Transform(LoopMatrix, <<GroupT(LoopSamples(i))>>, coil.pos[i])[1]
                pts == PolylinePoints(i)
            IN  /\ Len(pts) = GroupLen(all)
                /\ \A k \in 1..Len(pts) : pts[k] = GroupPoint(all, k)

\* the origin-centred loop of coil i of a polygonal or star profile, in its
\* 4 groups, before the rotation and the displacement
LocalGroups(i) ==
    IF spires.kind = "polygonal"
      THEN [g \in 1..4 |->
              GroupT(ArraySplit4(PolygonSamples(Half(coil.L[i]), spires.num_seg, spires.param))[g])]
      ELSE [g \in 1..4 |->
              GroupT(StarGroups(StarSamples(Half(coil.L[i]), spires.num_seg, spires.param))[g])]

\* C19: for a polygonal or star profile of two or more coils, the fixed
\* 180-degree rotation leaves the axial (x) coordinate of every point it is
\* applied to unchanged, and each world point is A composed with rotz_180
\* applied to the undisplaced local loop point, then moved by pos_i along the
\* coil axis (the x axis turned by A).
C19_InPlaneRotationThenDisplaced ==
    (spires.status = "ok" /\ spires.kind \in {"polygonal", "star"}
        /\ coil.coils_number >= 2) =>
        \A i \in 1..coil.coils_number :
            \A g \in 1..4 :
                \A k \in 1..GroupLen(spires.list[i][g]) :
                    LET q == GroupPoint(LocalGroups(i)[g], k)
                        rotated == <<Sub(q[1], coil.pos[i]), q[2], q[3]>>
                        turned == MatVec(MatMul(coil.A, rotz_180), q)
                        axial == MatVec(coil.A, <<coil.pos[i], 0, 0>>)
                    IN  /\ MatVec(rotz_180, rotated)[1] = rotated[1]
                        /\ GroupPoint(spires.list[i][g], k) = VecAdd(turned, axial)

\* the axial (x) coordinates of the points of polyline i of a generated list
AxialCoordinates(list, i) ==
    UNION {{list[i][g][1][k] : k \in 1..GroupLen(list[i][g])} : g \in 1..4}

\* C21: for two or more coils and the identity rotation, every point of coil
\* i of the generated profile has the axial coordinate at which square_spires
\* puts coil i of the same CoilParameters, whatever the profile kind is.
C21_SameAxialCoordinateForAllProfiles ==
    (spires.status = "ok" /\ ClaimedCall /\ coil.A = Identity3 /\ coil.coils_number >= 2) =>
        LET square == square_spires(coil, spires.num_seg, <<>>)
        IN  /\ square.status = "ok"
            /\ \A i \in 1..coil.coils_number :
                  AxialCoordinates(spires.list, i) \subseteq AxialCoordinates(square.list, i)

(***************************************************************************)
(* The observation grid as a state machine: one call of generate_range.    *)
(***************************************************************************)
MaxCoord == 3
MaxStep == 3

RangeInputs ==
    {r \in ((0 - MaxCoord)..MaxCoord) \X ((0 - MaxCoord)..MaxCoord) : r[1] <= r[2]}

GenerateRange ==
    /\ grid.status = "none"
    /\ \E x_range \in RangeInputs, y_range \in {<<>>, <<-1, 2>>}, z_range \in {<<>>, <<1, 2>>},
          step_size_x \in 1..MaxStep, step_size_y \in {<<>>, <<2>>} :
          grid' = generate_range(x_range, y_range, z_range, step_size_x, step_size_y, <<>>)
    /\ UNCHANGED <<args, coil, spires, fld, sim, opt, frames, ga>>

\* sequential_test.generate_range, called for one axis of half-width 2a
GenerateRangeSeq ==
    /\ grid.status = "none"
    /\ \E a \in 1..MaxCoord, grid_number \in 1..MaxStep :
          grid' = generate_range_seq(a, grid_number)
    /\ UNCHANGED <<args, coil, spires, fld, sim, opt, frames, ga>>

NextRange == GenerateRange \/ GenerateRangeSeq

SpecRange == Init /\ [][NextRange]_vars

Count(s, v) == Cardinality({k \in 1..Len(s) : s[k] = v})

ContainsOnce(s, range) ==
    /\ Count(s, range[1]) = 1
    /\ Count(s, range[2]) = 1
    /\ Count(s, 0) = 1

\* C10: the value sequence of every axis contains the range's lower end, its
\* upper end and 0, each exactly once, whether or not the step divides the range.
C10_EndpointsAndZeroOnce ==
    /\ grid.status = "ok" =>
          /\ ContainsOnce(grid.range_vals_x, grid.x_range)
          /\ ContainsOnce(grid.range_vals_y, grid.y_range)
          /\ ContainsOnce(grid.range_vals_z, grid.z_range)
    /\ grid.status = "axis" => ContainsOnce(grid.range_vals_x, grid.x_range)

\* a range whose step reaches neither 0 nor the upper end from the lower end
C10_Witness ==
    /\ grid.status = "ok"
    /\ grid.x_range[1] < 0
    /\ grid.x_range[2] > 0
    /\ (grid.x_range[2] - grid.x_range[1]) % grid.step_x # 0
    /\ (0 - grid.x_range[1]) % grid.step_x # 0

\* the three plane grids over the value sequences of the axes
PlaneGrids ==
    LET xs == SeqToSet(grid.range_vals_x)
        ys == SeqToSet(grid.range_vals_y)
        zs == SeqToSet(grid.range_vals_z)
    IN  {<<x, y, 0>> : x \in xs, y \in ys}
        \cup {<<0, y, z>> : y \in ys, z \in zs}
        \cup {<<x, 0, z>> : x \in xs, z \in zs}

\* C11: the points generate_range returns are exactly the union of the XY grid
\* at Z = 0, the YZ grid at X = 0 and the XZ grid at Y = 0, each distinct point
\* once.
C11_PointsAreUnionOfPlanes ==
    grid.status = "ok" =>
        /\ SeqToSet(grid.points) = PlaneGrids
        /\ Len(grid.points) = Cardinality(PlaneGrids)

\* a scan of three planes that share points: fewer points than the grids hold
C11_Witness ==
    /\ grid.status = "ok"
    /\ Len(grid.range_vals_x) > 1
    /\ Len(grid.range_vals_y) > 1
    /\ Len(grid.range_vals_z) > 1
    /\ Len(grid.points) < Len(grid.range_vals_x) * Len(grid.range_vals_y)
                           + Len(grid.range_vals_y) * Len(grid.range_vals_z)
                           + Len(grid.range_vals_x) * Len(grid.range_vals_z)

\* the table with one row per grid point, the Bx of row k being k
IndexedTable == ResultsTable(grid.points, [k \in 1..Len(grid.points) |-> k])

\* C22: the points generate_range returns contain the origin, so a table with
\* one row per returned point has a row with X = Y = Z = 0 and target_point
\* is the Bx of that row, never the mean of all rows.
C22_OriginAlwaysSampled ==
    grid.status = "ok" =>
        /\ \E k \in 1..Len(grid.points) : grid.points[k] = <<0, 0, 0>>
        /\ TargetPoint(IndexedTable).den = 1
        /\ TargetPoint(IndexedTable).num \in 1..Len(grid.points)
        /\ grid.points[TargetPoint(IndexedTable).num] = <<0, 0, 0>>

\* an x range that lies above 0, or whose fixed-step samples pass over 0
C22_Witness ==
    /\ grid.status = "ok"
    /\ \/ grid.x_range[1] > 0
       \/ grid.x_range[2] < 0
       \/ (0 - grid.x_range[1]) % grid.step_x # 0
    /\ Len(grid.points) > 3
    /\ \E k \in 1..Len(grid.points) : grid.points[k] = <<0, 0, 0>>

\* C23: every value generate_range produces for an axis lies in the closed
\* interval of that axis' range or is 0, also when the step does not divide
\* the length of the range.
C23_ValuesWithinRange ==
    grid.status = "ok" =>
        /\ \A k \in 1..Len(grid.range_vals_x) :
              \/ grid.range_vals_x[k] = 0
              \/ /\ grid.x_range[1] <= grid.range_vals_x[k]
                 /\ grid.range_vals_x[k] <= grid.x_range[2]
        /\ \A k \in 1..Len(grid.range_vals_y) :
              \/ grid.range_vals_y[k] = 0
              \/ /\ grid.y_range[1] <= grid.range_vals_y[k]
                 /\ grid.range_vals_y[k] <= grid.y_range[2]
        /\ \A k \in 1..Len(grid.range_vals_z) :
              \/ grid.range_vals_z[k] = 0
              \/ /\ grid.z_range[1] <= grid.range_vals_z[k]
                 /\ grid.range_vals_z[k] <= grid.z_range[2]

(***************************************************************************)
(* The field of a two-coil square arrangement at one point, by the         *)
(* parallel path and by the sequential reference.                          *)
(***************************************************************************)
MaxChunk == 9

FieldPoints ==
    {<<0, 0, 0>>, <<1, 0, 0>>, <<0, 1, -1>>, <<3, 1, 0>>, <<1, 2, 2>>, <<-2, 1, 2>>,
     <<-1, -1, 1>>}

\* the two coils, by sequential_test.square_spires or by CoilParameters.square_spires
TwoCoilGeometries ==
    {square_spires_seq(A, h, 2, num_seg) :
        A \in {Identity3, RotZ90}, h \in {2, 4}, num_seg \in 2..MaxNumSeg}
    \cup {square_spires(CoilParameters(2, <<4>>, <<h>>, <<1>>, 1, A), num_seg, <<>>).list :
        A \in {Identity3, RotZ90}, h \in {2, 4}, num_seg \in 2..MaxNumSeg}

\* both coils' sides stacked along axis 0: the layout (sides, 3, points)
Stacked(spire1, spire2) == [nd |-> 3, d |-> spire1 \o spire2]

SetGeometry ==
    /\ fld.status = "none"
    /\ \E g \in TwoCoilGeometries :
          fld' = [fld EXCEPT !.status = "geom", !.spire1 = g[1], !.spire2 = g[2]]
    /\ UNCHANGED <<args, coil, spires, grid, sim, opt, frames, ga>>

EvalParallel ==
    /\ fld.status = "geom"
    /\ \E P \in FieldPoints, N \in {1, 3}, n \in 1..MaxChunk :
          fld' = [fld EXCEPT !.status = "parallel", !.P = P, !.N = N, !.I = 1, !.n = n,
                     !.Bpar = magnetic_field_square_coil_parallel(
                                  <<P>>, <<N>>, 1, Stacked(fld.spire1, fld.spire2), n)]
    /\ UNCHANGED <<args, coil, spires, grid, sim, opt, frames, ga>>

EvalSequential ==
    /\ fld.status = "parallel"
    /\ fld' = [fld EXCEPT !.status = "both",
                  !.Bseq = magnetic_field_square_coil(fld.P, fld.N, fld.I,
                                                      fld.spire1, fld.spire2)]
    /\ UNCHANGED <<args, coil, spires, grid, sim, opt, frames, ga>>

NextField == SetGeometry \/ EvalParallel \/ EvalSequential

SpecField == Init /\ [][NextField]_vars

\* the observation point is on no sample point of the wire
OffWire ==
    \A k \in 1..8 : \A j \in 1..GroupLen(fld.spire1[1]) :
        GroupPoint((fld.spire1 \o fld.spire2)[k], j) # fld.P

FieldOf(sides) == calculate_field(<<fld.N * fld.I>>, fld.P, [nd |-> 3, d |-> sides]).B

\* C1: off the wire, the field of the parallel path (chunks of n sides) is the
\* vector sum of the fields of the sides computed one by one, and of the two
\* coils computed one by one, whatever n is.
C1_ChunkSumIsSuperposition ==
    (fld.status \in {"parallel", "both"} /\ OffWire) =>
        /\ ~fld.Bpar.err
        /\ ~HasNaN(fld.Bpar.B[1])
        /\ fld.Bpar.B[1] = VecSum([k \in 1..8 |-> FieldOf(<<(fld.spire1 \o fld.spire2)[k]>>)], 1, 8)
        /\ fld.Bpar.B[1] = VecAdd(FieldOf(fld.spire1), FieldOf(fld.spire2))

\* the 8 sides fall into chunks of 3, 3 and 2, and the field is not zero
C1_Witness ==
    /\ fld.status = "parallel"
    /\ OffWire
    /\ fld.n = 3
    /\ fld.Bpar.B[1] # ZeroVec

\* C3: off the wire, the parallel path over the stacked sides of both coils
\* returns the total field of the sequential reference, for every chunk size.
C3_ParallelEqualsSequential ==
    (fld.status = "both" /\ OffWire) =>
        /\ ~fld.Bpar.err
        /\ ~fld.Bseq.err
        /\ fld.Bpar.B[1] = fld.Bseq.B

C3_Witness ==
    /\ fld.status = "both"
    /\ OffWire
    /\ fld.n = 5
    /\ fld.Bseq.B # ZeroVec
    /\ fld.Bseq.B1 # fld.Bseq.B2

\* the index pairs <<k, j>> of two consecutive points j, j + 1 of the same
\* group k of the stacked polyline
ConsecutivePairs ==
    {<<k, j>> : k \in 1..Len(fld.spire1 \o fld.spire2),
                j \in 1..(GroupLen(fld.spire1[1]) - 1)}

\* A1 * cross(dl, R) / |R|^3 with dl = p[j + 1] - p[j] and R = P - p[j]
PairContribution(pair) ==
    LET g == (fld.spire1 \o fld.spire2)[pair[1]]
        start == GroupPoint(g, pair[2])
        end == GroupPoint(g, pair[2] + 1)
        A1 == fld.N * fld.I
    IN  BiotSavart(<<A1, A1, A1>>,
                   <<end[1] - start[1], end[2] - start[2], end[3] - start[3]>>,
                   <<fld.P[1] - start[1], fld.P[2] - start[2], fld.P[3] - start[3]>>)

RECURSIVE SumOverPairs(_)
SumOverPairs(pairs) ==
    IF pairs = {} THEN ZeroVec
    ELSE LET pair == CHOOSE q \in pairs : TRUE
             rest == SumOverPairs(pairs \ {pair})
             dB == PairContribution(pair)
         IN  <<rest[1] + dB[1], rest[2] + dB[2], rest[3] + dB[3]>>

\* C17: off the wire, the field calculate_field returns for a whole polyline
\* of G groups of m points is the sum of A1 * cross(dl, R) / |R|^3 over the
\* G * (m - 1) pairs of consecutive points of one group, with dl = p[j+1] - p[j]
\* and R = P - p[j]; no pair joins two groups.
C17_OneContributionPerPair ==
    (fld.status \in {"parallel", "both"} /\ OffWire
        /\ fld.n >= Len(fld.spire1 \o fld.spire2)) =>
        /\ ~fld.Bpar.err
        /\ Cardinality(ConsecutivePairs) =
              Len(fld.spire1 \o fld.spire2) * (GroupLen(fld.spire1[1]) - 1)
        /\ fld.Bpar.B[1] = SumOverPairs(ConsecutivePairs)

\* a polyline of 8 groups of 3 points in one chunk; a segment from the last
\* point of the first coil to the first point of the second coil would be
\* one more pair
C17_Witness ==
    /\ fld.status = "parallel"
    /\ OffWire
    /\ fld.n = 8
    /\ GroupLen(fld.spire1[1]) = 3
    /\ fld.Bpar.B[1] # ZeroVec
    /\ GroupPoint(fld.spire1[4], 3) # GroupPoint(fld.spire2[1], 1)

(***************************************************************************)
(* The batched simulation of a point list.  The coil is constructed and    *)
(* its geometry generated before the simulation is called.                 *)
(***************************************************************************)
MaxPoints == 3

SimPoints == {<<0, 0, 0>>, <<1, 0, 1>>, <<0, 3, 0>>}

PointLists == UNION {[1..k -> SimPoints] : k \in 1..MaxPoints}

InitSim ==
    /\ args = NoArgs
    /\ \E cn \in 2..MaxCoils :
          coil = CoilParameters(cn, <<4>>, <<2>>, <<2>>, 1, Identity3)
    /\ spires \in {square_spires(coil, 2, <<>>), circular_spires(coil, 2)}
    /\ grid = NoGrid
    /\ fld = NoFld
    /\ sim = NoSim
    /\ opt = NoOpt
    /\ frames = NoFrames
    /\ ga = NoGA

\* spires_list is the list the generator returned, or the sides of all coils
\* in one list (elements of the layout (3, points)); coil_params.N is the
\* array of CoilParameters, or a scalar as in sequential_test.CoilParameters
Simulate ==
    /\ sim.status = "none"
    /\ \E pts \in PointLists, batch_size \in 1..(MaxPoints + 1), parallel_coils \in 1..2,
          from_generator \in BOOLEAN, N \in {coil.N, <<2>>} :
          LET X == [k \in 1..Len(pts) |-> pts[k][1]]
              Y == [k \in 1..Len(pts) |-> pts[k][2]]
              Z == [k \in 1..Len(pts) |-> pts[k][3]]
              spires_list == IF from_generator
                               THEN [elem_nd |-> 3, items |-> spires.list]
                               ELSE [elem_nd |-> 2, items |-> Flatten(spires.list)]
              r == coil_simulation_1d_sequential(X, Y, Z, N, coil.I, spires_list,
                                                 parallel_coils, batch_size)
          IN  sim' = [status |-> r.status, X |-> X, Y |-> Y, Z |-> Z, N |-> N,
                      from_generator |-> from_generator, spires_list |-> spires_list,
                      parallel_coils |-> parallel_coils, batch_size |-> batch_size,
                      rows |-> r.rows]
    /\ UNCHANGED <<args, coil, spires, grid, fld, opt, frames, ga>>

SpecSim == InitSim /\ [][Simulate]_vars

\* C2: the table has one row per input point, with the point's X, Y, Z, and
\* the rows are those of batch_size = 1 and of one batch of all points.
\* Stated for the list of polylines a geometry generator returns.
C2_OneRowPerPoint ==
    (sim.status # "none" /\ sim.from_generator) =>
        /\ sim.status = "ok"
        /\ Len(sim.rows) = Len(sim.X)
        /\ \A k \in 1..Len(sim.rows) :
              SubSeq(sim.rows[k], 1, 3) = <<sim.X[k], sim.Y[k], sim.Z[k]>>
        /\ \A bs \in {1, Len(sim.X)} :
              sim.rows = coil_simulation_1d_sequential(sim.X, sim.Y, sim.Z, sim.N, coil.I,
                             sim.spires_list, sim.parallel_coils, bs).rows

\* the chunks coil_simulation_1d_sequential makes magnetic_field_square_coil_parallel
\* hand to calculate_field
ChunksHanded == Chunks(ConcatNewAxis(sim.spires_list), sim.parallel_coils)

\* C18: for the list of polylines a geometry generator returned, every chunk
\* handed to calculate_field has the layout (sides, 3, points): three
\* dimensions, each side being 3 coordinate rows of equally many points.
C18_ChunksHaveSideLayout ==
    (sim.status # "none" /\ sim.from_generator) =>
        \A c \in 1..Len(ChunksHanded) :
            /\ ChunksHanded[c].nd = 3
            /\ \A k \in 1..Len(ChunksHanded[c].d) :
                  /\ Len(ChunksHanded[c].d[k]) = 3
                  /\ \A r \in 1..3 : ChunksHanded[c].d[k][r] \in Seq(Int)

(***************************************************************************)
(* The fitness oracle of one HelmholtzOptimizer.  The shared coil has two  *)
(* coils; a candidate is a pair (L, d) of even numbers.  A call passes the *)
(* default grid_length_size or the optimizer's own.                        *)
(***************************************************************************)
DefaultGridLengthSize == 1

Individuals == {<<20, 12>>, <<12, 8>>, <<20, 8>>}

\* HelmholtzOptimizer(desired_size, coil, fun=coil.square_spires,
\* grid_length_size=grid_length_size), called later with num_seg=num_seg
HelmholtzOptimizer(desired_size, grid_length_size, num_seg) ==
    [status |-> "ready", desired_size |-> desired_size,
     grid_length_size |-> grid_length_size, num_seg |-> num_seg,
     fitness_cache |-> <<>>, last |-> NoCall]

InitFit ==
    /\ args = NoArgs
    /\ \E current \in {1, -1} :
          coil = CoilParameters(2, <<12>>, <<8>>, <<10>>, current, Identity3)
    /\ spires = NoSpires
    /\ grid = NoGrid
    /\ fld = NoFld
    /\ sim = NoSim
    /\ \E grid_length_size \in 1..2 : opt = HelmholtzOptimizer(8, grid_length_size, 2)
    /\ frames = NoFrames
    /\ ga = NoGA

\* one call of fitness_function, from its first line to its return
Evaluate ==
    /\ opt.status = "ready"
    /\ \E individual \in Individuals,
          grid_length_size \in {DefaultGridLengthSize, opt.grid_length_size} :
          LET r == fitness_function(opt, coil, spires, grid, individual, grid_length_size,
                                    SimulatedBx(opt, coil, individual, grid_length_size))
          IN  /\ opt' = r.opt
              /\ coil' = r.coil
              /\ spires' = r.spires
              /\ grid' = r.grid
    /\ UNCHANGED <<args, fld, sim, frames, ga>>

SpecFit == InitFit /\ [][Evaluate]_vars


\* C13: a call never changes or removes an entry of fitness_cache, and a call
\* whose key is in the cache returns the stored value and leaves the coil,
\* the geometry and the grid as they were.
C13_CacheOnlyGrows ==
    [][/\ \A k \in DOMAIN opt.fitness_cache :
             /\ k \in DOMAIN opt'.fitness_cache
             /\ opt'.fitness_cache[k] = opt.fitness_cache[k]
       /\ opt'.last.key \in DOMAIN opt.fitness_cache =>
             /\ opt'.last.result = opt.fitness_cache[opt'.last.key]
             /\ UNCHANGED <<coil, spires, grid>>]_vars

\* a call answered from the cache for a key other than the one the coil was
\* last updated to
C13_Witness ==
    /\ opt.status = "ready"
    /\ opt.last.hit
    /\ opt.last.key # <<coil.L[1], coil.h[1]>>
    /\ opt.last.result # Penalty

(***************************************************************************)
(* The first evaluation of a fresh optimizer, for any table the simulation *)
(* may return: every Bx column over BxValues.                              *)
(***************************************************************************)
BxValues == {-1000, 0, 1000, 1001, 1002}

InitBand ==
    /\ args = NoArgs
    /\ coil = CoilParameters(2, <<12>>, <<8>>, <<10>>, 1, Identity3)
    /\ spires = NoSpires
    /\ grid = NoGrid
    /\ fld = NoFld
    /\ sim = NoSim
    /\ \E grid_length_size \in 1..2 : opt = HelmholtzOptimizer(8, grid_length_size, 2)
    /\ frames = NoFrames
    /\ ga = NoGA

EvaluateTable ==
    /\ opt.status = "ready"
    /\ DOMAIN opt.fitness_cache = {}
    /\ \E grid_length_size \in 1..MaxStep :
          LET individual == <<12, 8>>
              n == Len(AxisPoints(update_parameters(coil, individual[1], individual[2]),
                                  grid_length_size).points)
          IN  \E Bx \in [1..n -> BxValues] :
                 LET r == fitness_function(opt, coil, spires, grid, individual,
                                           grid_length_size, Bx)
                 IN  /\ opt' = r.opt
                     /\ coil' = r.coil
                     /\ spires' = r.spires
                     /\ grid' = r.grid
    /\ UNCHANGED <<args, fld, sim, frames, ga>>

SpecBand == InitBand /\ [][EvaluateTable]_vars

\* a call that evaluated a table
Evaluated == opt.status = "ready" /\ Len(opt.last.coil_Results) > 0

\* the field value of the sample at the origin
CentreBx ==
    LET rows == opt.last.coil_Results
    IN  rows[CHOOSE k \in 1..Len(rows) :
                 rows[k].X = 0 /\ rows[k].Y = 0 /\ rows[k].Z = 0].Bx

AbsInt(x) == IF x < 0 THEN 0 - x ELSE x

\* the sorted X of the samples whose Bx is within 0.1% of the centre value c:
\* c - 0.001 |c| <= Bx <= c + 0.001 |c|
WithinTenthPercentX ==
    LET rows == opt.last.coil_Results
        Within(r) == ToleranceDen * AbsInt(r.Bx - CentreBx) <= AbsInt(CentreBx)
        band == SelectSeq(rows, Within)
    IN  SortValues([k \in 1..Len(band) |-> band[k].X])

\* no two consecutive entries of xs are more than 2 * step apart
NoGapOver(xs, step) == \A i \in 1..(Len(xs) - 1) : xs[i + 1] - xs[i] <= 2 * step

\* C12: when the samples within tolerance form one contiguous band of width w
\* (one sample: w = 0) the result is desired_size / 2 - w, and when two of
\* them are separated by more than twice the grid step it is 5000.
C12_BandWidthOrPenalty ==
    Evaluated =>
        LET xs == WithinTenthPercentX
            step == opt.last.grid_length_size
        IN  /\ (Len(xs) > 0 /\ NoGapOver(xs, step)) =>
                  opt.last.result = opt.desired_size \div 2 - (xs[Len(xs)] - xs[1])
            /\ (Len(xs) > 0 /\ ~NoGapOver(xs, step)) => opt.last.result = Penalty

\* C15: for a nonzero centre value the band fitness_function uses is the set
\* of samples within 0.1% of it, and the centre sample is in the band.
C15_BandIsTenthPercent ==
    (Evaluated /\ CentreBx # 0) =>
        /\ FilteredX(opt.last.coil_Results) = WithinTenthPercentX
        /\ 0 \in SeqToSet(FilteredX(opt.last.coil_Results))

\* C16: the call declares its band of two or more samples contiguous exactly
\* when no two consecutive samples are more than twice the step apart that
\* the same call generated its points with.
C16_ContiguityUsesCallStep ==
    (Evaluated /\ Len(FilteredX(opt.last.coil_Results)) > 1) =>
        (opt.last.result # Penalty
            <=> NoGapOver(FilteredX(opt.last.coil_Results), opt.last.grid_length_size))


(***************************************************************************)
(* Two fitness_function calls on one optimizer whose statements            *)
(* interleave: each call has its own frame of local variables, and the     *)
(* cache and the coil are shared.  A step is one statement of the method.  *)
(***************************************************************************)
Callers == 1..2

IdleFrame ==
    [pc |-> "idle", individual |-> <<0, 0>>, grid_length_size |-> 0,
     spires |-> <<>>, points |-> <<>>, coil_Results |-> <<>>, result |-> 0]

InitRace ==
    /\ args = NoArgs
    /\ coil = CoilParameters(2, <<12>>, <<8>>, <<10>>, 1, Identity3)
    /\ spires = NoSpires
    /\ grid = NoGrid
    /\ fld = NoFld
    /\ sim = NoSim
    /\ opt = HelmholtzOptimizer(8, DefaultGridLengthSize, 2)
    /\ frames = [t \in Callers |-> IdleFrame]
    /\ ga = NoGA

\* L, d = individual; key = (L, d); if key in self.fitness_cache: return ...
RaceCall(t) ==
    /\ frames[t].pc = "idle"
    /\ \E individual \in Individuals :
          frames' = [frames EXCEPT ![t] =
              IF individual \in DOMAIN opt.fitness_cache
                THEN [@ EXCEPT !.pc = "done", !.individual = individual,
                               !.grid_length_size = DefaultGridLengthSize,
                               !.result = opt.fitness_cache[individual]]
                ELSE [@ EXCEPT !.pc = "update", !.individual = individual,
                               !.grid_length_size = DefaultGridLengthSize]]
    /\ UNCHANGED <<args, coil, spires, grid, fld, sim, opt, ga>>

\* coil.update_parameters(length=L, distance=d)
RaceUpdate(t) ==
    /\ frames[t].pc = "update"
    /\ coil' = update_parameters(coil, frames[t].individual[1], frames[t].individual[2])
    /\ frames' = [frames EXCEPT ![t].pc = "fun"]
    /\ UNCHANGED <<args, spires, grid, fld, sim, opt, ga>>

\* spires = self.fun(*args, **kwargs)
RaceFun(t) ==
    /\ frames[t].pc = "fun"
    /\ frames' = [frames EXCEPT ![t].pc = "range",
                                ![t].spires = square_spires(coil, opt.num_seg, <<>>).list]
    /\ UNCHANGED <<args, coil, spires, grid, fld, sim, opt, ga>>

\* X, Y, Z = sim.generate_range(...)
RaceRange(t) ==
    /\ frames[t].pc = "range"
    /\ frames' = [frames EXCEPT ![t].pc = "simulate",
                                ![t].points = AxisPoints(coil, frames[t].grid_length_size).points]
    /\ UNCHANGED <<args, coil, spires, grid, fld, sim, opt, ga>>

\* coil_Results = sim.coil_simulation_parallel(X, Y, Z, coil, spires, batch_Size)
RaceSimulate(t) ==
    /\ frames[t].pc = "simulate"
    /\ LET points == frames[t].points
           X == [k \in 1..Len(points) |-> points[k][1]]
           Y == [k \in 1..Len(points) |-> points[k][2]]
           Z == [k \in 1..Len(points) |-> points[k][3]]
       IN  frames' = [frames EXCEPT ![t].pc = "store",
                         ![t].coil_Results =
                             coil_simulation_parallel(X, Y, Z, coil, frames[t].spires, 120)]
    /\ UNCHANGED <<args, coil, spires, grid, fld, sim, opt, ga>>

\* the band, the result and self.fitness_cache[key] = result
RaceStore(t) ==
    /\ frames[t].pc = "store"
    /\ LET result == FitnessOf(frames[t].coil_Results, opt.desired_size, opt.grid_length_size)
       IN  /\ opt' = [opt EXCEPT !.fitness_cache = CacheWith(@, frames[t].individual, result)]
           /\ frames' = [frames EXCEPT ![t].pc = "done", ![t].result = result]
    /\ UNCHANGED <<args, coil, spires, grid, fld, sim, ga>>

NextRace ==
    \E t \in Callers :
        \/ RaceCall(t)
        \/ RaceUpdate(t)
        \/ RaceFun(t)
        \/ RaceRange(t)
        \/ RaceSimulate(t)
        \/ RaceStore(t)

SpecRace == InitRace /\ [][NextRace]_vars

\* the value an uninterrupted evaluation of the key on a fresh cache returns
SolitaryValue(key) ==
    fitness_function([opt EXCEPT !.fitness_cache = <<>>], coil, spires, grid, key,
                     DefaultGridLengthSize,
                     SimulatedBx(opt, coil, key, DefaultGridLengthSize)).opt.last.result

\* C14: when both calls have returned, the value stored for each key is the
\* value of an uninterrupted evaluation of that key, in every interleaving.
C14_RaceOnlyRecomputes ==
    (opt.status = "ready" /\ frames # NoFrames /\ \A t \in Callers : frames[t].pc = "done") =>
        \A key \in DOMAIN opt.fitness_cache : opt.fitness_cache[key] = SolitaryValue(key)


(***************************************************************************)
(* The genetic operators of HelmholtzOptimizer.  A gene is an integer in   *)
(* units of 0.001; every gene value of the model is even, so round(x, 2),  *)
(* the nearest multiple of 10, never meets a tie.  An individual is the    *)
(* pair <<L, d>>.  The random draws of an operator are its last arguments. *)
(***************************************************************************)
MaxOps == 2

Max(x, y) == IF x >= y THEN x ELSE y

\* round(x, 2) for x >= 0
Round2(x) == 10 * PyRound(x, 10)

\* __init__: the ranges of L and d, from fix_L, fixed_L_value, desired_size
\* and coil.coils_number
OptimizerRanges(desired_size, coils_number, fix_L, fixed_L_value) ==
    IF fix_L
      THEN [NoGA EXCEPT !.status = "ready", !.fix_L = TRUE, !.fixed_L_value = fixed_L_value,
                        !.min_L = fixed_L_value, !.max_L = fixed_L_value,
                        !.min_d = fixed_L_value \div 2, !.max_d = fixed_L_value]
      ELSE [NoGA EXCEPT !.status = "ready", !.fixed_L_value = fixed_L_value,
                        !.min_L = desired_size, !.max_L = desired_size * 4,
                        !.min_d = desired_size, !.max_d = desired_size * coils_number]

apply_constraints(self, individual) ==
    <<IF self.fix_L THEN self.fixed_L_value
                    ELSE Round2(Max(self.min_L, Min(self.max_L, individual[1]))),
      Round2(Max(self.min_d, Min(self.max_d, individual[2])))>>

\* initial_L and initial_d are the two random.uniform draws
init_individual(self, initial_L, initial_d) == apply_constraints(self, <<initial_L, initial_d>>)

\* coin_L, coin_d: random.random() < indpb; gauss_L, gauss_d: random.gauss(mu, sigma)
mutate_individual(self, individual, coin_L, gauss_L, coin_d, gauss_d) ==
    LET L == IF ~self.fix_L /\ coin_L THEN individual[1] + gauss_L ELSE individual[1]
        d == IF coin_d THEN individual[2] + gauss_d ELSE individual[2]
    IN  apply_constraints(self, <<L, d>>)

\* coin_L, coin_d: random.random() < mutation_rate; gauss_L, gauss_d:
\* random.gauss(mu, sigma) with the sigma of the generation
adaptive_mutate(self, individual, coin_L, gauss_L, coin_d, gauss_d) ==
    LET L == IF ~self.fix_L /\ coin_L THEN individual[1] + gauss_L ELSE individual[1]
        d == IF coin_d THEN individual[2] + gauss_d ELSE individual[2]
    IN  apply_constraints(self, <<L, d>>)

\* coin_L, coin_d: random.random() < 0.5
mate_individual(self, ind1, ind2, coin_L, coin_d) ==
    LET swap_L == ~self.fix_L /\ coin_L
        a == <<IF swap_L THEN ind2[1] ELSE ind1[1], IF coin_d THEN ind2[2] ELSE ind1[2]>>
        b == <<IF swap_L THEN ind1[1] ELSE ind2[1], IF coin_d THEN ind1[2] ELSE ind2[2]>>
    IN  <<apply_constraints(self, a), apply_constraints(self, b)>>

\* alpha = random.uniform(-0.5, 1.5), given in fifths
long_jump_crossover(self, ind1, ind2, alpha_fifths) ==
    LET a == <<IF self.fix_L THEN ind1[1] ELSE ind2[1],
               (alpha_fifths * ind1[2] + (5 - alpha_fifths) * ind2[2]) \div 5>>
        b == <<IF self.fix_L THEN ind2[1] ELSE ind1[1], ind2[2]>>
    IN  <<apply_constraints(self, a), apply_constraints(self, b)>>

\* run_ga: the pop_size - 1 individuals of toolbox.population, then the initial
\* individual, <<>> for None, appended as it is given
run_ga(self, initials, initial_individual) ==
    LET population == [k \in 1..Len(initials) |->
                          init_individual(self, initials[k][1], initials[k][2])]
    IN  IF initial_individual = <<>> THEN population
        ELSE Append(population, initial_individual)

SeqRange(q) == {q[k] : k \in 1..Len(q)}

(***************************************************************************)
(* One optimizer and its population: run_ga fills the population, then the *)
(* genetic operators act on its members; every individual an operator      *)
(* returns is evaluated before the next generation is bred.                *)
(***************************************************************************)
DesiredSizes == {100, 104, 300}

\* the initial individual of optimize, [1.05, 0.59]
OptimizeSeed == <<1050, 590>>

GaussInputs == {-300, 6, 300}

AlphaInputs == {-2, 1, 3, 7}

InitGA ==
    /\ args = NoArgs
    /\ coil = CoilParameters(2, <<12>>, <<8>>, <<10>>, 1, Identity3)
    /\ spires = NoSpires
    /\ grid = NoGrid
    /\ fld = NoFld
    /\ sim = NoSim
    /\ opt = NoOpt
    /\ frames = NoFrames
    /\ \E desired_size \in DesiredSizes, fix_L \in BOOLEAN :
          ga = OptimizerRanges(desired_size, coil.coils_number, fix_L, 200)

\* the uniform draws of init_individual: the ends and the middle of
\* (min * 0.5, max * 1.5)
UniformInputs(lo, hi) == {lo \div 2, (lo + hi) \div 2, (3 * hi) \div 2}

RunGA ==
    /\ ga.status = "ready"
    /\ ga.pop = <<>>
    /\ \E L1 \in UniformInputs(ga.min_L, ga.max_L), d1 \in UniformInputs(ga.min_d, ga.max_d),
          d2 \in UniformInputs(ga.min_d, ga.max_d), initial_individual \in {<<>>, OptimizeSeed} :
          LET pop == run_ga(ga, <<<<L1, d1>>, <<L1, d2>>>>, initial_individual)
          IN  ga' = [ga EXCEPT !.pop = pop, !.evaluated = SeqRange(pop)]
    /\ UNCHANGED <<args, coil, spires, grid, fld, sim, opt, frames>>

Bred == ga.status = "ready" /\ ga.pop # <<>> /\ ga.ops < MaxOps

Mutate ==
    /\ Bred
    /\ \E i \in 1..Len(ga.pop), coin_L \in BOOLEAN, coin_d \in BOOLEAN,
          gauss_L \in GaussInputs, gauss_d \in GaussInputs :
          LET ind == mutate_individual(ga, ga.pop[i], coin_L, gauss_L, coin_d, gauss_d)
          IN  ga' = [ga EXCEPT !.pop[i] = ind, !.evaluated = @ \cup {ind}, !.ops = @ + 1]
    /\ UNCHANGED <<args, coil, spires, grid, fld, sim, opt, frames>>

AdaptiveMutate ==
    /\ Bred
    /\ \E i \in 1..Len(ga.pop), coin_L \in BOOLEAN, coin_d \in BOOLEAN,
          gauss_L \in GaussInputs, gauss_d \in GaussInputs :
          LET ind == adaptive_mutate(ga, ga.pop[i], coin_L, gauss_L, coin_d, gauss_d)
          IN  ga' = [ga EXCEPT !.pop[i] = ind, !.evaluated = @ \cup {ind}, !.ops = @ + 1]
    /\ UNCHANGED <<args, coil, spires, grid, fld, sim, opt, frames>>

Mate ==
    /\ Bred
    /\ \E i \in 1..Len(ga.pop), j \in 1..Len(ga.pop), coin_L \in BOOLEAN, coin_d \in BOOLEAN :
          /\ i < j
          /\ LET r == mate_individual(ga, ga.pop[i], ga.pop[j], coin_L, coin_d)
             IN  ga' = [ga EXCEPT !.pop[i] = r[1], !.pop[j] = r[2],
                                  !.evaluated = @ \cup {r[1], r[2]}, !.ops = @ + 1]
    /\ UNCHANGED <<args, coil, spires, grid, fld, sim, opt, frames>>

LongJump ==
    /\ Bred
    /\ \E i \in 1..Len(ga.pop), j \in 1..Len(ga.pop), alpha_fifths \in AlphaInputs :
          /\ i < j
          /\ LET r == long_jump_crossover(ga, ga.pop[i], ga.pop[j], alpha_fifths)
             IN  ga' = [ga EXCEPT !.pop[i] = r[1], !.pop[j] = r[2],
                                  !.evaluated = @ \cup {r[1], r[2]}, !.ops = @ + 1]
    /\ UNCHANGED <<args, coil, spires, grid, fld, sim, opt, frames>>

NextGA == RunGA \/ Mutate \/ AdaptiveMutate \/ Mate \/ LongJump

SpecGA == InitGA /\ [][NextGA]_vars

WithinBounds(ind) ==
    /\ ga.min_L <= ind[1] /\ ind[1] <= ga.max_L
    /\ ga.min_d <= ind[2] /\ ind[2] <= ga.max_d
    /\ ga.fix_L => ind[1] = ga.fixed_L_value

\* C24: every individual of the population, the initial individual of run_ga
\* included, and every individual passed to fitness_function has
\* min_L <= L <= max_L and min_d <= d <= max_d, and L = fixed_L_value when
\* fix_L is set.
C24_PopulationWithinBounds ==
    ga.status = "ready" =>
        \A ind \in SeqRange(ga.pop) \cup ga.evaluated : WithinBounds(ind)

=============================================================================
